---- MODULE Spec2Model ----
(***************************************************************************)
(* A model of the Avro schema library arcus/go-avro: the Schema variants,  *)
(* Marshal / Unmarshal / UnmarshalSchema (schema.go) and Equal / Contains  *)
(* (the full listing of the package in README.md).                         *)
(*                                                                         *)
(* A Schema value is a record tagged by `kind`.  A Go slice is a sequence  *)
(* (the nil slice and the empty slice are not told apart), a nil Schema    *)
(* interface is Nil.  Encoded text is a JSON tree tagged by `j`; an object *)
(* is a TLA+ record from its keys to JSON trees.                           *)
(***************************************************************************)
EXTENDS Naturals, Sequences, FiniteSets, TLC

VARIABLES pc, a, b, text, target, eq, dec

vars == <<pc, a, b, text, target, eq, dec>>

(***************************************************************************)
(* Bounds of the model.                                                    *)
(***************************************************************************)
\* integers (Decimal precision and scale, Fixed size) range over 0..MaxInt
MaxInt == 1
\* longest Union, field list and symbol list that is enumerated
MaxLen == 2

(***************************************************************************)
(* Schema variants.                                                        *)
(***************************************************************************)
Nil == [kind |-> "nil"]

Primitive(n) == [kind |-> "Primitive", name |-> n]

Null == Primitive("null")
Boolean == Primitive("boolean")
Int == Primitive("int")
Long == Primitive("long")
Float == Primitive("float")
Double == Primitive("double")
Bytes == Primitive("bytes")
String == Primitive("string")

Logical(k) == [kind |-> "Logical", type |-> k]

Date == Logical("date")
TimeMillis == Logical("time-millis")
TimeMicros == Logical("time-micros")
TimestampMillis == Logical("timestamp-millis")
TimestampMicros == Logical("timestamp-micros")
Duration == Logical("duration")

LogicalSingletons ==
    {Date, TimeMillis, TimeMicros, TimestampMillis, TimestampMicros, Duration}

\* Default is a JSON tree, or the nil interface NoDefault
NoDefault == [j |-> "absent"]

\* a nil *Field
NilField == [Name |-> "nil *Field"]

Field(name, type, doc, default, aliases, order) ==
    [Name |-> name, Type |-> type, Doc |-> doc, Default |-> default,
     Aliases |-> aliases, Order |-> order]

Record(name, namespace, doc, aliases, fields) ==
    [kind |-> "Record", Name |-> name, Namespace |-> namespace, Doc |-> doc,
     Aliases |-> aliases, Fields |-> fields]

Enum(name, namespace, doc, aliases, symbols) ==
    [kind |-> "Enum", Name |-> name, Namespace |-> namespace, Doc |-> doc,
     Aliases |-> aliases, Symbols |-> symbols]

Array(items) == [kind |-> "Array", Items |-> items]

Map(values) == [kind |-> "Map", Values |-> values]

Union(members) == [kind |-> "Union", members |-> members]

Fixed(name, namespace, size, aliases) ==
    [kind |-> "Fixed", Name |-> name, Namespace |-> namespace, Size |-> size,
     Aliases |-> aliases]

Decimal(precision, scale) ==
    [kind |-> "Decimal", Precision |-> precision, Scale |-> scale]

\* Schema.Type(): the type name of a non-nil schema
Type(s) ==
    CASE s.kind = "Primitive" -> s.name
      [] s.kind = "Logical"   -> s.type
      [] s.kind = "Record"    -> "record"
      [] s.kind = "Enum"      -> "enum"
      [] s.kind = "Array"     -> "array"
      [] s.kind = "Map"       -> "map"
      [] s.kind = "Union"     -> "union"
      [] s.kind = "Fixed"     -> "fixed"
      [] s.kind = "Decimal"   -> "decimal"

(***************************************************************************)
(* Equal and Contains.  A call returns "true" or "false", or it panics     *)
(* (a method call on a nil Schema interface): "panic".                     *)
(***************************************************************************)
RECURSIVE Equal(_, _)
RECURSIVE UnionIsEqualFrom(_, _, _)
RECURSIVE RecordFieldsEqualFrom(_, _, _)
RECURSIVE UnionContainsFrom(_, _, _)

PrimitiveIsEqual(p, o) ==
    IF o.kind # "Primitive" THEN "false"
    ELSE IF p.name = o.name THEN "true" ELSE "false"

FieldIsEqual(f, x) ==
    IF f = NilField \/ x = NilField THEN "panic"
    ELSE IF f.Name # x.Name THEN "false"
    ELSE Equal(f.Type, x.Type)

\* the loop of Record.isEqual from index i on
RecordFieldsEqualFrom(r, x, i) ==
    IF i > Len(r.Fields) THEN "true"
    ELSE LET e == FieldIsEqual(r.Fields[i], x.Fields[i])
         IN  IF e = "true" THEN RecordFieldsEqualFrom(r, x, i + 1) ELSE e

RecordIsEqual(r, o) ==
    IF o.kind # "Record" THEN "false"
    ELSE IF r.Name # o.Name THEN "false"
    ELSE IF r.Namespace # o.Namespace THEN "false"
    ELSE IF Len(r.Fields) # Len(o.Fields) THEN "false"
    ELSE RecordFieldsEqualFrom(r, o, 1)

EnumIsEqual(e, o) ==
    IF o.kind # "Enum" THEN "false"
    ELSE IF e.Name # o.Name THEN "false"
    ELSE IF e.Namespace # o.Namespace THEN "false"
    ELSE IF Len(e.Symbols) # Len(o.Symbols) THEN "false"
    ELSE IF \E i \in 1..Len(e.Symbols) : o.Symbols[i] # e.Symbols[i] THEN "false"
    ELSE "true"

ArrayIsEqual(x, o) ==
    IF o.kind # "Array" THEN "false" ELSE Equal(x.Items, o.Items)

MapIsEqual(m, o) ==
    IF o.kind # "Map" THEN "false" ELSE Equal(m.Values, o.Values)

\* the loop of Union.isEqual from index i on
UnionIsEqualFrom(u, x, i) ==
    IF i > Len(u.members) THEN "true"
    ELSE LET e == Equal(u.members[i], x.members[i])
         IN  IF e = "true" THEN UnionIsEqualFrom(u, x, i + 1) ELSE e

UnionIsEqual(u, o) ==
    IF o.kind # "Union" THEN "false"
    ELSE IF Len(u.members) # Len(o.members) THEN "false"
    ELSE UnionIsEqualFrom(u, o, 1)

\* the loop of Union.Contains from index i on
UnionContainsFrom(u, t, i) ==
    IF i > Len(u.members) THEN "false"
    ELSE LET e == Equal(u.members[i], t)
         IN  IF e = "false" THEN UnionContainsFrom(u, t, i + 1) ELSE e

\* a Contains that looks at the first member only
UnionContainsFirst(u, t) ==
    IF Len(u.members) = 0 THEN "false" ELSE Equal(u.members[1], t)

UnionContains(u, t) == UnionContainsFrom(u, t, 1)

\* defined in the package, and called from nowhere
FixedIsEqual(f, o) ==
    IF o.kind # "Fixed" THEN "false"
    ELSE IF f.Name # o.Name THEN "false"
    ELSE IF f.Namespace # o.Namespace THEN "false"
    ELSE IF f.Size # o.Size THEN "false"
    ELSE "true"

DecimalIsEqual(d, o) ==
    IF o.kind # "Decimal" THEN "false"
    ELSE IF d.Precision = o.Precision /\ d.Scale = o.Scale THEN "true"
    ELSE "false"

Equal(s1, s2) ==
    IF s1.kind = "nil" \/ s2.kind = "nil" THEN "panic"
    ELSE IF Type(s1) # Type(s2) THEN "false"
    ELSE IF s1.kind = "Primitive" THEN "true"
    ELSE IF Type(s1) \in {Type(l) : l \in LogicalSingletons} THEN "true"
    ELSE CASE s1.kind = "Union"   -> UnionIsEqual(s1, s2)
           [] s1.kind = "Record"  -> RecordIsEqual(s1, s2)
           [] s1.kind = "Enum"    -> EnumIsEqual(s1, s2)
           [] s1.kind = "Map"     -> MapIsEqual(s1, s2)
           [] s1.kind = "Array"   -> ArrayIsEqual(s1, s2)
           [] s1.kind = "Decimal" -> DecimalIsEqual(s1, s2)
           [] OTHER               -> "false"

Contains(s, m) ==
    IF s.kind = "Union" THEN UnionContains(s, m) ELSE Equal(s, m)

(***************************************************************************)
(* Encoded text.  JEmpty is a text of no bytes or of white space only (and *)
(* a json.RawMessage that was never set); JBad(lead) is a text that is not *)
(* well-formed JSON and starts with the byte `lead`.                       *)
(***************************************************************************)
JEmpty == [j |-> "empty"]

JBad(lead) == [j |-> "bad", lead |-> lead]

JNull == [j |-> "null"]

JStr(s) == [j |-> "str", s |-> s]

JNum(n) == [j |-> "num", n |-> n]

JArr(elems) == [j |-> "arr", elems |-> elems]

JObj(m) == [j |-> "obj", m |-> m]

\* the object with no key
NoKeys == [k \in {} |-> JNull]

\* the key k, present only when `present`
Opt(present, k, v) == IF present THEN k :> v ELSE NoKeys

JStrings(seq) == JArr([i \in 1..Len(seq) |-> JStr(seq[i])])

(***************************************************************************)
(* Marshal: json.Marshal on a Schema, through the variants' MarshalJSON.   *)
(***************************************************************************)
RECURSIVE Marshal(_)

\* encoding/json on a *Field: the struct tags of Field
FieldMarshalJSON(f) ==
    IF f = NilField THEN JNull
    ELSE
    JObj(("name" :> JStr(f.Name)) @@ ("type" :> Marshal(f.Type))
         @@ Opt(f.Doc # "", "doc", JStr(f.Doc))
         @@ Opt(f.Default # NoDefault, "default", f.Default)
         @@ Opt(Len(f.Aliases) > 0, "aliases", JStrings(f.Aliases))
         @@ Opt(f.Order # "", "order", JStr(f.Order)))

RecordMarshalJSON(r) ==
    JObj(("type" :> JStr("record")) @@ ("name" :> JStr(r.Name))
         @@ ("fields" :> JArr([i \in 1..Len(r.Fields) |-> FieldMarshalJSON(r.Fields[i])]))
         @@ Opt(r.Namespace # "", "namespace", JStr(r.Namespace))
         @@ Opt(r.Doc # "", "doc", JStr(r.Doc))
         @@ Opt(Len(r.Aliases) > 0, "aliases", JStrings(r.Aliases)))

EnumMarshalJSON(e) ==
    JObj(("type" :> JStr("enum")) @@ ("name" :> JStr(e.Name))
         @@ ("symbols" :> JStrings(e.Symbols))
         @@ Opt(e.Namespace # "", "namespace", JStr(e.Namespace))
         @@ Opt(e.Doc # "", "doc", JStr(e.Doc))
         @@ Opt(Len(e.Aliases) > 0, "aliases", JStrings(e.Aliases)))

ArrayMarshalJSON(x) ==
    JObj(("type" :> JStr("array")) @@ ("items" :> Marshal(x.Items)))

MapMarshalJSON(m) ==
    JObj(("type" :> JStr("map")) @@ ("values" :> Marshal(m.Values)))

FixedMarshalJSON(f) ==
    JObj(("type" :> JStr("fixed")) @@ ("name" :> JStr(f.Name))
         @@ Opt(f.Namespace # "", "namespace", JStr(f.Namespace))
         @@ Opt(Len(f.Aliases) > 0, "aliases", JStrings(f.Aliases)))

DecimalMarshalJSON(d) ==
    JObj(("type" :> JStr("bytes")) @@ ("logicalType" :> JStr("decimal"))
         @@ ("precision" :> JNum(d.Precision)) @@ ("scale" :> JNum(d.Scale)))

\* MarshalJSON of date, timeMillis, timeMicros, timestampMillis,
\* timestampMicros and duration
LogicalMarshalJSON(l) ==
    CASE l = Date            -> JObj([type |-> JStr("int"), logicalType |-> JStr("date")])
      [] l = TimeMillis      -> JObj([type |-> JStr("int"), logicalType |-> JStr("time-millis")])
      [] l = TimeMicros      -> JObj([type |-> JStr("long"), logicalType |-> JStr("time-micros")])
      [] l = TimestampMillis -> JObj([type |-> JStr("long"), logicalType |-> JStr("timestamp-millis")])
      [] l = TimestampMicros -> JObj([type |-> JStr("long"), logicalType |-> JStr("timestamp-micros")])
      [] l = Duration        -> JObj([type |-> JStr("fixed"), logicalType |-> JStr("duration"),
                                      size |-> JNum(12)])

Marshal(s) ==
    CASE s.kind = "nil"       -> JNull
      [] s.kind = "Primitive" -> JStr(s.name)
      [] s.kind = "Union"     -> JArr([i \in 1..Len(s.members) |-> Marshal(s.members[i])])
      [] s.kind = "Logical"   -> LogicalMarshalJSON(s)
      [] s.kind = "Record"    -> RecordMarshalJSON(s)
      [] s.kind = "Enum"      -> EnumMarshalJSON(s)
      [] s.kind = "Array"     -> ArrayMarshalJSON(s)
      [] s.kind = "Map"       -> MapMarshalJSON(s)
      [] s.kind = "Fixed"     -> FixedMarshalJSON(s)
      [] s.kind = "Decimal"   -> DecimalMarshalJSON(s)

(***************************************************************************)
(* Errors of a decode.                                                     *)
(***************************************************************************)
NoErr == [e |-> "nil"]

\* an error of encoding/json: malformed text, or a value of the wrong JSON type
JsonErr == [e |-> "json"]

UnknownLogicalType(v) == [e |-> "unknown logical type", v |-> v]

UnknownComplexType(v) == [e |-> "unknown complex type", v |-> v]

CouldNotUnmarshal(t) == [e |-> "could not unmarshal as Schema", v |-> t]

(***************************************************************************)
(* encoding/json storing one key of an object into a struct field that     *)
(* held `old`: an absent key and a null leave the field alone, a value of  *)
(* another JSON type is a type error (ok = FALSE) and decoding goes on.    *)
(***************************************************************************)
StringField(m, k, old) ==
    IF k \notin DOMAIN m \/ m[k].j = "null" THEN [val |-> old, ok |-> TRUE]
    ELSE IF m[k].j = "str" THEN [val |-> m[k].s, ok |-> TRUE]
    ELSE [val |-> old, ok |-> FALSE]

IntField(m, k, old) ==
    IF k \notin DOMAIN m \/ m[k].j = "null" THEN [val |-> old, ok |-> TRUE]
    ELSE IF m[k].j = "num" THEN [val |-> m[k].n, ok |-> TRUE]
    ELSE [val |-> old, ok |-> FALSE]

StringsField(m, k, old) ==
    IF k \notin DOMAIN m THEN [val |-> old, ok |-> TRUE]
    ELSE IF m[k].j = "null" THEN [val |-> <<>>, ok |-> TRUE]
    ELSE IF m[k].j = "arr"
    THEN LET es == m[k].elems
         IN  [val |-> [i \in 1..Len(es) |-> IF es[i].j = "str" THEN es[i].s ELSE ""],
              ok  |-> \A i \in 1..Len(es) : es[i].j \in {"str", "null"}]
    ELSE [val |-> old, ok |-> FALSE]

\* a json.RawMessage field: the bytes of the value, a null included
RawField(m, k) == IF k \in DOMAIN m THEN m[k] ELSE JEmpty

\* an interface{} field
AnyField(m, k, old) ==
    IF k \notin DOMAIN m THEN old
    ELSE IF m[k].j = "null" THEN NoDefault ELSE m[k]

(***************************************************************************)
(* Unmarshal and the variants' UnmarshalJSON.  Each returns the value left *)
(* in its target and the error.                                            *)
(***************************************************************************)
RECURSIVE Unmarshal(_)
RECURSIVE UnionMembersFrom(_, _, _)
RECURSIVE FieldsFrom(_, _, _, _)

ZeroField == Field("", Nil, "", NoDefault, <<>>, "")

\* the end of Field.UnmarshalJSON: f1 is f with the proxy's attributes, ok
\* tells that the proxy was decoded, r is what Unmarshal(p.Type) returned
FieldSetType(f, f1, ok, r) ==
    IF ~ok THEN [val |-> f, err |-> JsonErr]
    ELSE IF r.err # NoErr THEN [val |-> f1, err |-> r.err]
    ELSE [val |-> [f1 EXCEPT !.Type = r.schema], err |-> NoErr]

FieldUnmarshalJSON(f, t) ==
    IF t.j # "obj" THEN [val |-> f, err |-> JsonErr]
    ELSE LET m  == t.m
             n  == StringField(m, "name", "")
             d  == StringField(m, "doc", "")
             al == StringsField(m, "aliases", <<>>)
             o  == StringField(m, "order", "")
         IN  FieldSetType(f,
                          [f EXCEPT !.Name = n.val, !.Doc = d.val,
                                    !.Default = AnyField(m, "default", NoDefault),
                                    !.Aliases = al.val, !.Order = o.val],
                          n.ok /\ d.ok /\ al.ok /\ o.ok,
                          Unmarshal(RawField(m, "type")))

\* encoding/json decoding element i of "fields": a null makes the *Field nil,
\* anything else goes to UnmarshalJSON of the *Field the slice held at i, or
\* of a new one
FieldElement(old, i, e) ==
    IF e.j = "null" THEN [val |-> NilField, err |-> NoErr]
    ELSE FieldUnmarshalJSON(IF i <= Len(old) /\ old[i] # NilField THEN old[i] ELSE ZeroField, e)

\* encoding/json after element i of "fields" was decoded with result r: an
\* error of Field.UnmarshalJSON ends the decoding
FieldsNext(es, old, i, acc, r) ==
    IF r.err # NoErr THEN [val |-> Append(acc, r.val), ok |-> TRUE, err |-> r.err]
    ELSE FieldsFrom(es, old, i + 1, Append(acc, r.val))

\* encoding/json decoding the elements of "fields" from index i on, into the
\* slice that held `old`; `acc` are the elements stored so far
FieldsFrom(es, old, i, acc) ==
    IF i > Len(es) THEN [val |-> acc, ok |-> TRUE, err |-> NoErr]
    ELSE FieldsNext(es, old, i, acc, FieldElement(old, i, es[i]))

\* the key "fields" of a Record: ok = FALSE is a type error, err the error
\* of a Field.UnmarshalJSON
FieldsField(m, old) ==
    IF "fields" \notin DOMAIN m THEN [val |-> old, ok |-> TRUE, err |-> NoErr]
    ELSE IF m.fields.j = "null" THEN [val |-> <<>>, ok |-> TRUE, err |-> NoErr]
    ELSE IF m.fields.j = "arr" THEN FieldsFrom(m.fields.elems, old, 1, <<>>)
    ELSE [val |-> old, ok |-> FALSE, err |-> NoErr]

\* the keys are taken in the order Marshal writes them: aliases, doc, fields,
\* name, namespace; the error of a Field.UnmarshalJSON ends the decoding
RecordStore(tgt, al, d, fs, n, ns) ==
    IF fs.err # NoErr
    THEN [val |-> [tgt EXCEPT !.Aliases = al.val, !.Doc = d.val, !.Fields = fs.val],
          err |-> fs.err]
    ELSE [val |-> Record(n.val, ns.val, d.val, al.val, fs.val),
          err |-> IF al.ok /\ d.ok /\ fs.ok /\ n.ok /\ ns.ok THEN NoErr ELSE JsonErr]

\* encoding/json decoding `t` into a *Record: Record has no UnmarshalJSON
RecordUnmarshal(tgt, t) ==
    IF t.j = "null" THEN [val |-> tgt, err |-> NoErr]
    ELSE IF t.j # "obj" THEN [val |-> tgt, err |-> JsonErr]
    ELSE RecordStore(tgt,
                     StringsField(t.m, "aliases", tgt.Aliases),
                     StringField(t.m, "doc", tgt.Doc),
                     FieldsField(t.m, tgt.Fields),
                     StringField(t.m, "name", tgt.Name),
                     StringField(t.m, "namespace", tgt.Namespace))

\* encoding/json decoding `t` into an *Enum: Enum has no UnmarshalJSON
EnumUnmarshal(tgt, t) ==
    IF t.j = "null" THEN [val |-> tgt, err |-> NoErr]
    ELSE IF t.j # "obj" THEN [val |-> tgt, err |-> JsonErr]
    ELSE LET m  == t.m
             al == StringsField(m, "aliases", tgt.Aliases)
             d  == StringField(m, "doc", tgt.Doc)
             n  == StringField(m, "name", tgt.Name)
             ns == StringField(m, "namespace", tgt.Namespace)
             sy == StringsField(m, "symbols", tgt.Symbols)
         IN  [val |-> Enum(n.val, ns.val, d.val, al.val, sy.val),
              err |-> IF al.ok /\ d.ok /\ n.ok /\ ns.ok /\ sy.ok THEN NoErr ELSE JsonErr]

\* encoding/json decoding `t` into a *Fixed: Fixed has no UnmarshalJSON
FixedUnmarshal(tgt, t) ==
    IF t.j = "null" THEN [val |-> tgt, err |-> NoErr]
    ELSE IF t.j # "obj" THEN [val |-> tgt, err |-> JsonErr]
    ELSE LET m  == t.m
             al == StringsField(m, "aliases", tgt.Aliases)
             n  == StringField(m, "name", tgt.Name)
             ns == StringField(m, "namespace", tgt.Namespace)
             z  == IntField(m, "size", tgt.Size)
         IN  [val |-> Fixed(n.val, ns.val, z.val, al.val),
              err |-> IF al.ok /\ n.ok /\ ns.ok /\ z.ok THEN NoErr ELSE JsonErr]

\* the end of Array.UnmarshalJSON: ok tells that the proxy was decoded, r is
\* what Unmarshal(p.Items) returned
ArraySetItems(tgt, ok, r) ==
    IF ~ok THEN [val |-> tgt, err |-> JsonErr]
    ELSE IF r.err # NoErr THEN [val |-> tgt, err |-> r.err]
    ELSE [val |-> Array(r.schema), err |-> NoErr]

ArrayUnmarshalJSON(tgt, t) ==
    IF t.j \notin {"obj", "null"} THEN [val |-> tgt, err |-> JsonErr]
    ELSE LET m == IF t.j = "obj" THEN t.m ELSE NoKeys
         IN  ArraySetItems(tgt, StringField(m, "type", "").ok, Unmarshal(RawField(m, "items")))

\* the end of Map.UnmarshalJSON
MapSetValues(tgt, ok, r) ==
    IF ~ok THEN [val |-> tgt, err |-> JsonErr]
    ELSE IF r.err # NoErr THEN [val |-> tgt, err |-> r.err]
    ELSE [val |-> Map(r.schema), err |-> NoErr]

MapUnmarshalJSON(tgt, t) ==
    IF t.j \notin {"obj", "null"} THEN [val |-> tgt, err |-> JsonErr]
    ELSE LET m == IF t.j = "obj" THEN t.m ELSE NoKeys
         IN  MapSetValues(tgt, StringField(m, "type", "").ok, Unmarshal(RawField(m, "values")))

\* a loop that puts each decoded member in front of the earlier ones
UnionMembersNextInFront(es, i, acc, r) ==
    IF r.err # NoErr THEN [val |-> acc, err |-> r.err]
    ELSE UnionMembersFrom(es, i + 1, <<r.schema>> \o acc)

\* the loop of Union.UnmarshalJSON after Unmarshal(p[i]) returned r
UnionMembersNext(es, i, acc, r) ==
    IF r.err # NoErr THEN [val |-> acc, err |-> r.err]
    ELSE UnionMembersFrom(es, i + 1, Append(acc, r.schema))

\* the loop of Union.UnmarshalJSON from index i on; `acc` is x[1..i-1]
UnionMembersFrom(es, i, acc) ==
    IF i > Len(es) THEN [val |-> acc, err |-> NoErr]
    ELSE UnionMembersNext(es, i, acc, Unmarshal(es[i]))

\* the end of Union.UnmarshalJSON: r is what the loop left
UnionSet(tgt, r) ==
    IF r.err # NoErr THEN [val |-> tgt, err |-> r.err]
    ELSE [val |-> Union(r.val), err |-> NoErr]

UnionUnmarshalJSON(tgt, t) ==
    IF t.j \notin {"arr", "null"} THEN [val |-> tgt, err |-> JsonErr]
    ELSE UnionSet(tgt, UnionMembersFrom(IF t.j = "arr" THEN t.elems ELSE <<>>, 1, <<>>))

\* a switch on logicalType that takes time-micros for time-millis
LogicalOfMillis(l) ==
    CASE l = "date"             -> Date
      [] l = "time-millis"      -> TimeMillis
      [] l = "time-micros"      -> TimeMillis
      [] l = "timestamp-millis" -> TimestampMillis
      [] l = "timestamp-micros" -> TimestampMicros
      [] l = "duration"         -> Duration
      [] OTHER                  -> Nil

\* the switch on logicalType
LogicalOf(l) ==
    CASE l = "date"             -> Date
      [] l = "time-millis"      -> TimeMillis
      [] l = "time-micros"      -> TimeMicros
      [] l = "timestamp-millis" -> TimestampMillis
      [] l = "timestamp-micros" -> TimestampMicros
      [] l = "duration"         -> Duration
      [] OTHER                  -> Nil

\* a switch on type without the case "fixed"
ComplexOfNoFixed(ty, t) ==
    CASE ty = "record" -> RecordUnmarshal(Record("", "", "", <<>>, <<>>), t)
      [] ty = "enum"   -> EnumUnmarshal(Enum("", "", "", <<>>, <<>>), t)
      [] ty = "array"  -> ArrayUnmarshalJSON(Array(Nil), t)
      [] ty = "map"    -> MapUnmarshalJSON(Map(Nil), t)
      [] OTHER         -> [val |-> Nil, err |-> UnknownComplexType(ty)]

\* the switch on type, and json.Unmarshal into the variant it chose
ComplexOf(ty, t) ==
    CASE ty = "record" -> RecordUnmarshal(Record("", "", "", <<>>, <<>>), t)
      [] ty = "enum"   -> EnumUnmarshal(Enum("", "", "", <<>>, <<>>), t)
      [] ty = "array"  -> ArrayUnmarshalJSON(Array(Nil), t)
      [] ty = "map"    -> MapUnmarshalJSON(Map(Nil), t)
      [] ty = "fixed"  -> FixedUnmarshal(Fixed("", "", 0, <<>>), t)
      [] OTHER         -> [val |-> Nil, err |-> UnknownComplexType(ty)]

\* what Unmarshal returns after json.Unmarshal into x returned r: x, or nil
\* and the error
SchemaOrError(r) ==
    IF r.err # NoErr THEN [schema |-> Nil, err |-> r.err]
    ELSE [schema |-> r.val, err |-> NoErr]

Unmarshal(t) ==
    CASE t.j = "empty" -> [schema |-> Nil, err |-> NoErr]
      [] t.j = "bad" ->
            [schema |-> Nil,
             err |-> IF t.lead \in {"quote", "bracket", "brace"}
                     THEN JsonErr ELSE CouldNotUnmarshal(t)]
      [] t.j = "str" -> [schema |-> Primitive(t.s), err |-> NoErr]
      [] t.j = "arr" -> SchemaOrError(UnionUnmarshalJSON(Union(<<>>), t))
      [] t.j = "obj" ->
            LET ty == StringField(t.m, "type", "")
                lt == StringField(t.m, "logicalType", "")
            IN  IF ~(ty.ok /\ lt.ok) THEN [schema |-> Nil, err |-> JsonErr]
                ELSE IF lt.val # ""
                THEN IF LogicalOf(lt.val) = Nil
                     THEN [schema |-> Nil, err |-> UnknownLogicalType(lt.val)]
                     ELSE [schema |-> LogicalOf(lt.val), err |-> NoErr]
                ELSE SchemaOrError(ComplexOf(ty.val, t))
      [] OTHER -> [schema |-> Nil, err |-> CouldNotUnmarshal(t)]

\* UnmarshalSchema: json.Unmarshal(b, s) on the target s
UnmarshalSchema(t, s) ==
    IF t.j \in {"empty", "bad"} THEN [val |-> s, err |-> JsonErr]
    ELSE CASE s.kind = "Record" -> RecordUnmarshal(s, t)
           [] s.kind = "Enum"   -> EnumUnmarshal(s, t)
           [] s.kind = "Fixed"  -> FixedUnmarshal(s, t)
           [] s.kind = "Array"  -> ArrayUnmarshalJSON(s, t)
           [] s.kind = "Map"    -> MapUnmarshalJSON(s, t)
           [] s.kind = "Union"  -> UnionUnmarshalJSON(s, t)

(***************************************************************************)
(* The schema values a caller constructs directly.                         *)
(***************************************************************************)
Ints == 0..MaxInt

NameSet == {"a", "b"}

NamespaceSet == {"", "n"}

SeqsUpTo(S, n) == UNION {[1..k -> S] : k \in 0..n}

\* the Union of TestUnionContains, and the same members in another order
TestUnion == Union(<<Null, Decimal(1, 2), String>>)

TestUnionReordered == Union(<<String, Null, Decimal(1, 2)>>)

\* primitives, among them names that are also the type name of another variant
Primitives ==
    {Null, String} \cup
    {Primitive(n) : n \in {"record", "enum", "array", "map", "union", "fixed",
                           "decimal", "date"}}

Decimals == {Decimal(p, s) : p \in Ints, s \in Ints}

Fixeds == {Fixed(n, ns, z, <<>>) : n \in NameSet, ns \in NamespaceSet, z \in Ints}

Enums ==
    {Enum(n, "", "", <<>>, sy) : n \in NameSet, sy \in SeqsUpTo({"X", "Y"}, MaxLen)}
    \cup {Enum("a", "n", "", <<>>, <<>>), Enum("a", "", "doc", <<"z">>, <<>>)}

Leaves == Primitives \cup LogicalSingletons \cup Decimals \cup Fixeds \cup Enums \cup {Nil}

\* the schemas nested in an enumerated composite
Kids == {Nil, Null, Date, Primitive("decimal"), Decimal(0, 0), Fixed("a", "", 0, <<>>)}

Unions == {Union(m) : m \in SeqsUpTo(Kids, MaxLen)}

\* fields: bare ones, and one with every informational attribute set
Fields ==
    {Field(n, t, "", NoDefault, <<>>, "") : n \in {"f", "g"}, t \in {Nil, Null, Decimal(0, 0)}}
    \cup {Field("f", Null, "doc", [j |-> "str", s |-> "d"], <<"z">>, "ascending")}

Records ==
    {Record(n, "", "", <<>>, fs) : n \in {"a"}, fs \in SeqsUpTo(Fields, MaxLen)}
    \cup {Record("b", "", "", <<>>, <<>>), Record("a", "n", "", <<>>, <<>>),
          Record("a", "", "doc", <<"z">>, <<>>)}

Wraps(S) == {Array(x) : x \in S} \cup {Map(x) : x \in S}

\* composites of composites
Nested ==
    Wraps({Array(Null), Union(<<Null, Date>>), Union(<<Date, Null>>), Array(Nil)})
    \cup {Union(<<Union(<<Null>>), Array(Null)>>), Union(<<Array(Null), Union(<<Null>>)>>),
          Union(<<Union(<<>>)>>), Union(<<Array(Fixed("a", "", 0, <<>>))>>),
          Record("a", "", "", <<>>, <<Field("f", Union(<<Null, Date>>), "", NoDefault, <<>>, "")>>),
          Record("a", "", "", <<>>, <<Field("f", Union(<<Date, Null>>), "", NoDefault, <<>>, "")>>),
          Record("a", "", "", <<>>, <<Field("f", Fixed("a", "", 0, <<>>), "", NoDefault, <<>>, "")>>),
          Record("a", "", "doc", <<>>, <<Field("f", Fixed("a", "", 0, <<>>), "", NoDefault, <<>>, "")>>)}

Schemas ==
    Leaves \cup Unions \cup Wraps(Kids) \cup Records \cup Nested
    \cup {TestUnion, TestUnionReordered, Decimal(1, 2)}

\* the Record of TestSchema
TestRecord ==
    Record("Record", "", "", <<>>,
           <<Field("arcus_id", String, "", NoDefault, <<>>, ""),
             Field("dob", Union(<<Null, Date>>), "", NoDefault, <<>>, ""),
             Field("ethnicity",
                   Union(<<Null, Enum("sex", "", "", <<>>, <<"Male", "Female", "Unknown">>)>>),
                   "", NoDefault, <<>>, "")>>)

(***************************************************************************)
(* Records whose fields have a primitive, a logical singleton, an Enum or  *)
(* a Union of those as their type.                                         *)
(***************************************************************************)
EightPrimitives == {Null, Boolean, Int, Long, Float, Double, Bytes, String}

PlainEnums ==
    {Enum("sex", ns, "", <<>>, sy) : ns \in NamespaceSet, sy \in {<<"M", "F">>, <<"F", "M">>}}
    \cup {Enum("sex", "", "doc", <<"z">>, <<>>)}

PlainKids == {Null, String, Date, Duration} \cup PlainEnums

PlainTypes ==
    EightPrimitives \cup LogicalSingletons \cup PlainEnums
    \cup {Union(m) : m \in SeqsUpTo(PlainKids, MaxLen)}

PlainFields ==
    {Field("f", Null, "", NoDefault, <<>>, ""),
     Field("g", Union(<<Null, Date>>), "", NoDefault, <<>>, ""),
     Field("f", Union(<<Date, Null>>), "doc", JStr("d"), <<"z">>, "ascending")}

PlainRecords ==
    {Record("a", "", "", <<>>, <<Field("f", t, "", NoDefault, <<>>, "")>>) : t \in PlainTypes}
    \cup {Record(n, ns, "", <<>>, fs) :
             n \in NameSet, ns \in NamespaceSet, fs \in SeqsUpTo(PlainFields, MaxLen)}
    \cup {Record("a", "", "doc", <<"z">>, <<>>), TestRecord}

(***************************************************************************)
(* The texts a caller hands to Unmarshal and UnmarshalSchema, beside those *)
(* Marshal wrote: an object is a value (or none) for "type", a value (or   *)
(* none) for "logicalType", and further keys.                              *)
(***************************************************************************)
TypeStrings ==
    {"", "record", "enum", "array", "map", "fixed", "decimal", "bytes", "string", "int"}

LogicalTypeStrings ==
    {"", "date", "time-millis", "time-micros", "timestamp-millis", "timestamp-micros",
     "duration", "decimal", "nanosecond"}

\* what a key holds: nothing (Absent), a null, a string, or a value that is no string
Absent == [j |-> "absent"]

AttrValues(strings) == {Absent, JNull, JNum(1)} \cup {JStr(x) : x \in strings}

UnknownLogicalText == JObj([type |-> JStr("int"), logicalType |-> JStr("nanosecond")])

\* the texts nested in an enumerated text
SubTexts ==
    {JStr("int"), JNull, UnknownLogicalText, JObj([type |-> JStr("decimal")]),
     JObj([type |-> JStr("array")]), JArr(<<JStr("null"), JStr("int")>>),
     JArr(<<JStr("null"), UnknownLogicalText>>)}

FieldTexts ==
    {JObj([name |-> JStr("f"), type |-> x]) : x \in SubTexts}
    \cup {JObj([name |-> JStr("f")]), JObj([name |-> JNum(1), type |-> JStr("int")]), JNull}

\* the keys of an object beside "type" and "logicalType"
MoreKeys ==
    {NoKeys, [name |-> JStr("a")], [name |-> JNum(1)], [name |-> JStr("a"), size |-> JNum(1)],
     [name |-> JNum(1), doc |-> JStr("d")],
     [name |-> JStr("a"), symbols |-> JStrings(<<"X">>)]}
    \cup {[items |-> x] : x \in SubTexts}
    \cup {[values |-> x] : x \in SubTexts}
    \cup {[name |-> JStr("a"), fields |-> JArr(<<x>>)] : x \in FieldTexts}
    \cup {[name |-> JStr("a"), doc |-> JStr("d"),
           fields |-> JArr(<<JObj([name |-> JStr("f"), type |-> JStr("int")]), x>>)] :
             x \in FieldTexts}

ObjectTexts ==
    {JObj(Opt(ty # Absent, "type", ty) @@ Opt(lt # Absent, "logicalType", lt) @@ more) :
        ty \in AttrValues(TypeStrings), lt \in AttrValues(LogicalTypeStrings),
        more \in MoreKeys}

Texts ==
    {JEmpty, JNull, JNum(1), JStr("int"), JStr("record"), JStr("decimal"), JStr("")}
    \cup {JBad(l) : l \in {"quote", "bracket", "brace", "other"}}
    \cup {JArr(m) : m \in SeqsUpTo(SubTexts, MaxLen)}
    \cup ObjectTexts

\* the targets a caller hands to UnmarshalSchema: a new value of a variant,
\* or one that holds something
Targets ==
    {Record("", "", "", <<>>, <<>>), Enum("", "", "", <<>>, <<>>), Fixed("", "", 0, <<>>),
     Array(Nil), Map(Nil), Union(<<>>),
     Record("old", "n", "doc", <<"z">>, <<Field("o", Null, "", NoDefault, <<>>, "")>>),
     Array(Null), Map(Null), Union(<<Null>>)}

(***************************************************************************)
(* The caller.  It constructs a schema value (Construct) and a second one  *)
(* (ConstructOther) and calls Equal or Contains on the two, or Marshal on  *)
(* the first and then Unmarshal or UnmarshalSchema on what Marshal wrote;  *)
(* or it gets a text from elsewhere (Receive), calls Unmarshal or          *)
(* UnmarshalSchema on it, and goes on with the schema it got (Keep).       *)
(***************************************************************************)
NoResult == [schema |-> Nil, err |-> [e |-> "none"]]

\* what a call that filled a target left: the target and the error
Returned(r) == [schema |-> r.val, err |-> r.err]

Init ==
    /\ pc = "idle"
    /\ a = Nil
    /\ b = Nil
    /\ text = JEmpty
    /\ target = Nil
    /\ eq = "none"
    /\ dec = NoResult

Construct ==
    /\ pc = "idle"
    /\ a' \in Schemas \cup PlainRecords
    /\ pc' = "one"
    /\ UNCHANGED <<b, text, target, eq, dec>>

ConstructOther ==
    /\ pc = "one"
    /\ a \in Schemas
    /\ b' \in Schemas
    /\ pc' = "held"
    /\ UNCHANGED <<a, text, target, eq, dec>>

CallEqual ==
    /\ pc = "held"
    /\ eq' = Equal(a, b)
    /\ pc' = "Equal"
    /\ UNCHANGED <<a, b, text, target, dec>>

CallContains ==
    /\ pc = "held"
    /\ eq' = Contains(a, b)
    /\ pc' = "Contains"
    /\ UNCHANGED <<a, b, text, target, dec>>

CallMarshal ==
    /\ pc = "one"
    /\ text' = Marshal(a)
    /\ pc' = "marshalled"
    /\ UNCHANGED <<a, b, target, eq, dec>>

Receive ==
    /\ pc = "idle"
    /\ text' \in Texts
    /\ pc' = "text"
    /\ UNCHANGED <<a, b, target, eq, dec>>

\* Unmarshal(text): on what Marshal(a) wrote ("roundtrip") or on a text
\* from elsewhere ("decoded")
CallUnmarshal ==
    /\ pc \in {"marshalled", "text"}
    /\ dec' = Unmarshal(text)
    /\ pc' = IF pc = "marshalled" THEN "roundtrip" ELSE "decoded"
    /\ UNCHANGED <<a, b, text, target, eq>>

\* UnmarshalSchema(text, &t) for a target t the caller supplies: dec holds
\* the target after the call and the error
CallUnmarshalSchema ==
    /\ pc \in {"marshalled", "text"}
    /\ \E tgt0 \in Targets :
          /\ target' = tgt0
          /\ dec' = Returned(UnmarshalSchema(text, tgt0))
    /\ pc' = IF pc = "marshalled" THEN "roundtripInto" ELSE "decodedInto"
    /\ UNCHANGED <<a, b, text, eq>>

\* the caller goes on with the schema a successful Unmarshal returned
Keep ==
    /\ pc = "decoded"
    /\ dec.err = NoErr
    /\ a' = dec.schema
    /\ b' \in {dec.schema, Null, Array(Null)}
    /\ pc' = "held"
    /\ UNCHANGED <<text, target, eq, dec>>

Next ==
    \/ Construct
    \/ ConstructOther
    \/ CallEqual
    \/ CallContains
    \/ CallMarshal
    \/ Receive
    \/ CallUnmarshal
    \/ CallUnmarshalSchema
    \/ Keep

Spec == Init /\ [][Next]_vars

(***************************************************************************)
(* The properties.                                                         *)
(***************************************************************************)
RECURSIVE HasNil(_)

\* s is the nil Schema, or holds one: an Array without Items, a Map without
\* Values, a Field without Type, a nil member of a Union, a nil *Field
HasNil(s) ==
    CASE s.kind = "nil"    -> TRUE
      [] s.kind = "Array"  -> HasNil(s.Items)
      [] s.kind = "Map"    -> HasNil(s.Values)
      [] s.kind = "Union"  -> \E i \in DOMAIN s.members : HasNil(s.members[i])
      [] s.kind = "Record" ->
            \E i \in DOMAIN s.Fields : s.Fields[i] = NilField \/ HasNil(s.Fields[i].Type)
      [] OTHER             -> FALSE

\* a primitive, a logical singleton or an Enum
IsPlainKid(s) == s.kind \in {"Primitive", "Logical", "Enum"}

\* a primitive, a logical singleton, an Enum, or a Union of those
IsPlainType(s) ==
    \/ IsPlainKid(s)
    \/ s.kind = "Union" /\ \A i \in DOMAIN s.members : IsPlainKid(s.members[i])

IsPlainRecord(s) ==
    /\ s.kind = "Record"
    /\ \A i \in DOMAIN s.Fields : s.Fields[i] # NilField /\ IsPlainType(s.Fields[i].Type)

EmptyRecord == Record("", "", "", <<>>, <<>>)

\* C1: for every schema value x that holds no nil schema, Unmarshal(Marshal(x))
\* succeeds and returns a schema Equal to x
RoundTripIsEqual ==
    (pc = "roundtrip" /\ ~HasNil(a)) =>
        /\ dec.err = NoErr
        /\ dec.schema # Nil
        /\ Equal(dec.schema, a) = "true"

\* C2: for every Record r whose fields have a primitive, a logical singleton,
\* an Enum or a Union of those as their type, UnmarshalSchema(Marshal(r), &Record{})
\* succeeds and leaves in the target a Record with the name, the fields in
\* their order and the nested types (members and symbols in their order) of r
RecordRoundTripIsIdentical ==
    (pc = "roundtripInto" /\ IsPlainRecord(a) /\ target = EmptyRecord) =>
        /\ dec.err = NoErr
        /\ dec.schema = a

\* the Record of TestSchema came back from UnmarshalSchema(Marshal(r), &Record{})
TestRecordRoundTripped ==
    /\ pc = "roundtripInto"
    /\ a = TestRecord
    /\ target = EmptyRecord
    /\ dec.err = NoErr
    /\ dec.schema.Fields[3].Type.members[2].Symbols = <<"Male", "Female", "Unknown">>

\* C3: Contains(s, m) for a Union s is true iff Equal(member, m) is true for
\* at least one member of s, at whatever position; the Union of
\* TestUnionContains and a reordering of it contain each of its members; and
\* Contains(s, m) = Equal(s, m) when s is no Union
ContainsIsMembership ==
    (pc = "Contains" /\ ~HasNil(a) /\ ~HasNil(b)) =>
        /\ a.kind = "Union" =>
              /\ eq \in {"true", "false"}
              /\ (eq = "true") <=>
                     \E i \in DOMAIN a.members : Equal(a.members[i], b) = "true"
        /\ a.kind # "Union" => eq = Equal(a, b)
        /\ (a \in {TestUnion, TestUnionReordered} /\ b \in {Null, Decimal(1, 2), String})
              => eq = "true"

\* Contains found the Decimal that is the last member of the reordered Union
ContainsFoundLastMember ==
    /\ pc = "Contains"
    /\ a = TestUnionReordered
    /\ b = Decimal(1, 2)
    /\ eq = "true"

\* C4: Equal(x, x) is true for every schema value x that holds no nil schema
EqualIsReflexive ==
    (pc = "Equal" /\ a = b /\ ~HasNil(a)) => eq = "true"

\* C5: Equal(a, b) = Equal(b, a) for every pair of schema values that hold
\* no nil schema, a Primitive named as another variant's type among them
EqualIsSymmetric ==
    (pc = "Equal" /\ ~HasNil(a) /\ ~HasNil(b)) => eq = Equal(b, a)

\* C6: Equal and Contains return a boolean, without a panic, for every pair
\* of schema values the caller constructed or got from a successful Unmarshal,
\* a decoded Array, Map or Field without items, values or type among them
EqualNeverPanics ==
    (pc \in {"Equal", "Contains"} /\ a # Nil /\ b # Nil) => eq \in {"true", "false"}

\* C7: Equal on two Decimals is true iff precision and scale are equal, and
\* Equal on a Decimal and a value of another variant is false
DecimalEquality ==
    (pc = "Equal" /\ ~HasNil(a) /\ ~HasNil(b)) =>
        /\ (a.kind = "Decimal" /\ b.kind = "Decimal") =>
              ((eq = "true") <=> (a.Precision = b.Precision /\ a.Scale = b.Scale))
        /\ ((a.kind = "Decimal") # (b.kind = "Decimal")) => eq = "false"

\* C8: Equal on two Unions is true iff they have the same length and equal
\* members at every index, and Contains is true for a Union of two members
\* and each of the two, in either order
UnionEqualityIsPositional ==
    /\ (pc = "Equal" /\ a.kind = "Union" /\ b.kind = "Union" /\ ~HasNil(a) /\ ~HasNil(b)) =>
          ((eq = "true") <=>
              /\ Len(a.members) = Len(b.members)
              /\ \A i \in DOMAIN a.members : Equal(a.members[i], b.members[i]) = "true")
    /\ (pc = "Contains" /\ a.kind = "Union" /\ Len(a.members) = 2 /\ ~HasNil(a)
           /\ \E i \in DOMAIN a.members : a.members[i] = b) =>
          eq = "true"

SixLogicalTypes ==
    {"date", "time-millis", "time-micros", "timestamp-millis", "timestamp-micros", "duration"}

\* the text is an object whose logicalType is a string that is not empty
HasLogicalType(t) ==
    /\ t.j = "obj"
    /\ "logicalType" \in DOMAIN t.m
    /\ t.m.logicalType.j = "str"
    /\ t.m.logicalType.s # ""

\* the type attribute of the object is absent, null or a string
HasStringType(t) == "type" \in DOMAIN t.m => t.m.type.j \in {"str", "null"}

\* what the logicalType of the text decides
ByLogicalType(t) ==
    IF t.m.logicalType.s \in SixLogicalTypes
    THEN [schema |-> Logical(t.m.logicalType.s), err |-> NoErr]
    ELSE [schema |-> Nil, err |-> UnknownLogicalType(t.m.logicalType.s)]

\* C9: an object whose logicalType is present and not empty, and whose type
\* attribute is absent, null or a string, decodes by its logicalType alone:
\* one of the six kinds gives the logical singleton of that kind, any other
\* string fails with the unknown-logical-type error that carries it; so
\* does what Marshal writes for a Decimal
LogicalTypeDecides ==
    /\ (pc = "decoded" /\ HasLogicalType(text) /\ HasStringType(text)) =>
          dec = ByLogicalType(text)
    /\ (pc = "roundtrip" /\ a.kind = "Decimal") =>
          dec = [schema |-> Nil, err |-> UnknownLogicalType("decimal")]

\* C9 as stated: an object whose logicalType is present and not empty decodes
\* by its logicalType alone, whatever its type attribute
LogicalTypeDecidesWhateverType ==
    (pc = "decoded" /\ HasLogicalType(text)) => dec = ByLogicalType(text)

\* an object of type "record" and logicalType "duration" was decoded to Duration
RecordTypedDurationDecoded ==
    /\ pc = "decoded"
    /\ text = JObj([type |-> JStr("record"), logicalType |-> JStr("duration")])
    /\ dec = [schema |-> Duration, err |-> NoErr]

\* C10: Equal on two Fixed values is true iff name, namespace and size are equal
FixedEquality ==
    (pc = "Equal" /\ a.kind = "Fixed" /\ b.kind = "Fixed") =>
        ((eq = "true") <=>
            (a.Name = b.Name /\ a.Namespace = b.Namespace /\ a.Size = b.Size))

\* the two Records have the same name and namespace and, position by
\* position, fields of the same name and the same type: they differ at most
\* in doc and aliases and in their fields' doc, default, aliases and order
SameButMetadata(r, x) ==
    /\ r.Name = x.Name
    /\ r.Namespace = x.Namespace
    /\ Len(r.Fields) = Len(x.Fields)
    /\ \A i \in DOMAIN r.Fields :
          r.Fields[i].Name = x.Fields[i].Name /\ r.Fields[i].Type = x.Fields[i].Type

\* the two Records hold the same two fields, of different names, in the
\* opposite order
SwappedFields(r, x) ==
    /\ Len(r.Fields) = 2
    /\ Len(x.Fields) = 2
    /\ r.Fields[1] = x.Fields[2]
    /\ r.Fields[2] = x.Fields[1]
    /\ r.Fields[1].Name # r.Fields[2].Name

\* C11: Equal on two Records is true iff name and namespace are equal, the
\* field counts are equal and at every position the fields have equal names
\* and Equal types; two Records that differ only in doc, aliases and their
\* fields' doc, default, aliases and order are Equal; two Records with the
\* same fields in a different order are not
RecordEquality ==
    (pc = "Equal" /\ a.kind = "Record" /\ b.kind = "Record" /\ ~HasNil(a) /\ ~HasNil(b)) =>
        /\ (eq = "true") <=>
              /\ a.Name = b.Name
              /\ a.Namespace = b.Namespace
              /\ Len(a.Fields) = Len(b.Fields)
              /\ \A i \in DOMAIN a.Fields :
                    /\ a.Fields[i].Name = b.Fields[i].Name
                    /\ Equal(a.Fields[i].Type, b.Fields[i].Type) = "true"
        /\ SameButMetadata(a, b) => eq = "true"
        /\ SwappedFields(a, b) => eq = "false"

\* C12: whenever Unmarshal returns an error the Schema it returns is nil, and
\* whenever UnmarshalSchema returns an error the Record, Array, Map or Union
\* the caller supplied as the target holds what it held before the call
FailedDecodeLeavesNothing ==
    /\ (pc \in {"decoded", "roundtrip"} /\ dec.err # NoErr) => dec.schema = Nil
    /\ (pc \in {"decodedInto", "roundtripInto"} /\ dec.err # NoErr
           /\ target.kind \in {"Record", "Array", "Map", "Union"}) =>
          dec.schema = target

\* the text is an object whose logicalType is absent, null or the empty string
HasNoLogicalType(t) ==
    /\ t.j = "obj"
    /\ "logicalType" \in DOMAIN t.m =>
          \/ t.m.logicalType.j = "null"
          \/ t.m.logicalType.j = "str" /\ t.m.logicalType.s = ""

\* the string the type attribute of the object holds, "" when it is absent or null
TypeString(t) ==
    IF "type" \in DOMAIN t.m /\ t.m.type.j = "str" THEN t.m.type.s ELSE ""

\* the variant each complex type name stands for
VariantOf(ty) ==
    CASE ty = "record" -> "Record"
      [] ty = "enum"   -> "Enum"
      [] ty = "array"  -> "Array"
      [] ty = "map"    -> "Map"
      [] ty = "fixed"  -> "Fixed"
      [] OTHER         -> "none"

\* the object holds "type" and nothing else
HasTypeOnly(t) == DOMAIN t.m = {"type"}

\* the new value of each complex variant
ZeroVariant(ty) ==
    CASE ty = "record" -> Record("", "", "", <<>>, <<>>)
      [] ty = "enum"   -> Enum("", "", "", <<>>, <<>>)
      [] ty = "array"  -> Array(Nil)
      [] ty = "map"    -> Map(Nil)
      [] ty = "fixed"  -> Fixed("", "", 0, <<>>)

\* C13: an object whose logicalType is absent, null or empty, and whose type
\* attribute is absent, null or a string, is decoded by its type alone: for
\* "record", "enum", "array", "map", "fixed" Unmarshal returns a value of that
\* variant (the new value when the object holds nothing else) or the error
\* of decoding the object into it, never the unknown-complex-type error for
\* that type; for every other string, "" of a missing type among them, it
\* returns nil and the unknown-complex-type error that carries the string
ComplexTypeDecides ==
    (pc = "decoded" /\ HasNoLogicalType(text) /\ HasStringType(text)) =>
        IF VariantOf(TypeString(text)) # "none"
        THEN /\ dec.err = NoErr => dec.schema.kind = VariantOf(TypeString(text))
             /\ dec.err # NoErr => dec.schema = Nil
             /\ dec.err # UnknownComplexType(TypeString(text))
             /\ HasTypeOnly(text) =>
                   dec = [schema |-> ZeroVariant(TypeString(text)), err |-> NoErr]
        ELSE dec = [schema |-> Nil, err |-> UnknownComplexType(TypeString(text))]

\* C13 as stated: an object with no or an empty logicalType yields a Record,
\* Enum, Array, Map or Fixed for the five complex type names, and the
\* unknown-complex-type error for every other type attribute
ComplexTypeDecidesWhateverObject ==
    (pc = "decoded" /\ HasNoLogicalType(text)) =>
        IF VariantOf(TypeString(text)) # "none"
        THEN dec.err = NoErr /\ dec.schema.kind = VariantOf(TypeString(text))
        ELSE dec.schema = Nil /\ dec.err.e = "unknown complex type"

\* an object of type "enum" with a name and symbols was decoded to that Enum
EnumObjectDecoded ==
    /\ pc = "decoded"
    /\ text = JObj([type |-> JStr("enum"), name |-> JStr("a"), symbols |-> JStrings(<<"X">>)])
    /\ dec = [schema |-> Enum("a", "", "", <<>>, <<"X">>), err |-> NoErr]

====
